---- MODULE Spec2Model ----
(***************************************************************************)
(* HuaAgent: a medical question-answering evaluation pipeline.             *)
(*                                                                         *)
(* Four scripts are modelled, one per value of the variable script:       *)
(*   "builder"  4_rag/2c_rag_excel.py      spreadsheet -> vector store     *)
(*   "extract"  run/process_data/excel2QAjson.py  spreadsheet -> qa_pairs  *)
(*   "basellm"  run/basellm.py             thread-pool batch run           *)
(*   "rag"      run/rag.py                 sequential batch run            *)
(*                                                                         *)
(* Text is a sequence of one-character strings, so that str.strip() and    *)
(* the f-string formatting are computed, not assumed.                      *)
(***************************************************************************)
EXTENDS Integers, Sequences, FiniteSets, TLC

VARIABLES
    script,          \* which script this behaviour runs
    \* ---- the spreadsheet being iterated (builder and extract)
    columns,         \* df.columns: the header, a sequence of column names
    nrows,           \* len(df)
    rowIdx,          \* rows already iterated by df.iterrows()
    \* ---- 4_rag/2c_rag_excel.py
    bpc,             \* position in the script: start, read, rows, split, store
    runs,            \* number of runs of the script started so far
    dirExists,       \* os.path.exists(persistent_directory)
    fileExists,      \* os.path.exists(file_path)
    store,           \* chunks persisted in the Chroma directory
    documents,       \* the documents list
    docRows,         \* for each document, the spreadsheet row it was built from
    docs,            \* the chunks returned by split_documents
    report,          \* what the last finished run printed or raised
    stepRuns,        \* for each build step, the runs that completed it
    \* ---- run/process_data/excel2QAjson.py
    epc,             \* position in extract_qa_pairs: columns, rows, done
    qa_pairs,        \* the qa_pairs list being returned
    pairRows,        \* for each qa_pair, the spreadsheet row it was built from
    corrected_count, \* corrected_count
    \* ---- run/basellm.py and run/rag.py
    mpc,             \* position of the main thread: load, submit, collect, loop, done
    loaded,          \* the qa_pairs list loaded from qa_data.json
    qa_pair,         \* the loop variable qa_pair (0 before the first iteration)
    futures,         \* basellm: state and result of each submitted task
    completed,       \* basellm: task indices in order of completion
    pos,             \* index of the next item of the collecting / processing loop
    out_file,        \* the lines of the output file
    lineInfo,        \* for each line, the loop iteration that wrote it and how
    processed_count, \* basellm: processed_count
    results,         \* rag: the results list
    calls            \* rag: for each rag_chain.invoke, the external calls it made

dfVars      == <<columns, nrows, rowIdx>>
builderVars == <<bpc, runs, dirExists, fileExists, store, documents, docRows,
                 docs, report, stepRuns>>
extractVars == <<epc, qa_pairs, pairRows, corrected_count>>
batchVars   == <<mpc, loaded, qa_pair, futures, completed, pos, out_file,
                 lineInfo, processed_count, results, calls>>
vars        == <<script, dfVars, builderVars, extractVars, batchVars>>

----------------------------------------------------------------------------
(* Bounds of the model.                                                    *)

MaxRows == 2      \* rows of a spreadsheet
MaxRuns == 3      \* runs of the corpus builder against one directory
MaxN    == 2      \* questions in qa_data.json

----------------------------------------------------------------------------
(* Text and spreadsheet cells.                                             *)

Whitespace == {" ", "\n", "\t"}

RECURSIVE lstrip(_)
lstrip(s) ==
    IF s # <<>> /\ Head(s) \in Whitespace THEN lstrip(Tail(s)) ELSE s

RECURSIVE rstrip(_)
rstrip(s) ==
    IF s # <<>> /\ s[Len(s)] \in Whitespace
    THEN rstrip(SubSeq(s, 1, Len(s) - 1))
    ELSE s

\* str.strip()
strip(s) == rstrip(lstrip(s))

\* A cell is a record: na is pd.isna(cell), v its value when it is not.
NaText   == [na |-> TRUE, v |-> <<>>]
NaNumber == [na |-> TRUE, v |-> 0]
Text(s)   == [na |-> FALSE, v |-> s]
Number(n) == [na |-> FALSE, v |-> n]

\* pd.notna(cell)
notna(cell) == ~cell.na

\* Column names and the cells a column of that name holds.  "question",
\* "answer" and "corrected_answer" are names the extractor recognises; "q",
\* "a" and "fix" are names it does not.
QuestionNames  == {"question", "q"}
AnswerNames    == {"answer", "a"}
StatusNames    == {"status"}
CorrectedNames == {"corrected_answer", "fix"}

CellsOf(name) ==
    CASE name \in QuestionNames  ->
             {NaText, Text(<<" ">>), Text(<<" ", "q", " ">>)}
      [] name \in AnswerNames    ->
             {NaText, Text(<<" ">>), Text(<<" ", "a", " ">>)}
      [] name \in StatusNames    ->
             {NaNumber, Number(0), Number(1)}
      [] name \in CorrectedNames ->
             {NaText, Text(<<" ">>), Text(<<" ", "b", " ">>), Text(<<"a">>)}

\* The rows a spreadsheet with header h can hold.
RowsOf(h) ==
    CASE Len(h) = 1 -> {<<a>> : a \in CellsOf(h[1])}
      [] Len(h) = 2 -> CellsOf(h[1]) \X CellsOf(h[2])
      [] Len(h) = 3 -> CellsOf(h[1]) \X CellsOf(h[2]) \X CellsOf(h[3])
      [] Len(h) = 4 -> CellsOf(h[1]) \X CellsOf(h[2]) \X CellsOf(h[3])
                           \X CellsOf(h[4])

\* Python's None, for a column that is absent.
None == "None"

\* row[col]: the cell of the column named col, in a sheet with header h.
Cell(h, row, col) == row[CHOOSE p \in 1..Len(h) : h[p] = col]

\* str(row[col]) if pd.notna(row[col]) else ""
CellText(h, row, col) ==
    IF notna(Cell(h, row, col)) THEN Cell(h, row, col).v ELSE <<>>

----------------------------------------------------------------------------
(* 4_rag/2c_rag_excel.py: the corpus builder.                              *)

\* The sheets the builder may be given: one to four columns, in the order
\* the script assumes.
BuilderHeaders ==
    { <<"question">>,
      <<"question", "answer">>,
      <<"question", "answer", "status">>,
      <<"question", "answer", "status", "corrected_answer">> }

\* Lines 33-36 index df.columns[0..2]: a sheet with fewer than three columns
\* raises IndexError, re-raised by line 41.
ColumnsResolve(h) == Len(h) >= 3

\* Line 41: the text of the IndexError that the raised exception carries;
\* df.columns[1] fails on a one-column sheet, df.columns[2] on a two-column
\* one.
IndexError(h) ==
    IF Len(h) < 2
    THEN "index 1 is out of bounds for axis 0 with size 1"
    ELSE "index 2 is out of bounds for axis 0 with size 2"

question_col(h)  == h[1]
answer_col(h)    == h[2]
status_col(h)    == h[3]
corrected_col(h) == IF Len(h) > 3 THEN h[4] ELSE None

\* Line 49: row[status_col] if pd.notna(row[status_col]) else 0
RowStatus(h, row) ==
    IF notna(Cell(h, row, status_col(h)))
    THEN Cell(h, row, status_col(h)).v
    ELSE 0

\* Line 50: the corrected answer, "" when the column or the cell is absent.
RowCorrected(h, row) ==
    IF corrected_col(h) # None /\ notna(Cell(h, row, corrected_col(h)))
    THEN Cell(h, row, corrected_col(h)).v
    ELSE <<>>

\* Line 53: the rows the loop skips.
SkipsRowAnd(question, answer) == strip(question) = <<>> /\ strip(answer) = <<>>
SkipsRow(question, answer) == strip(question) = <<>> \/ strip(answer) = <<>>

\* Line 57: the correction-override policy.
final_answer_any_status(status, answer, corrected_answer) ==
    IF strip(corrected_answer) # <<>> THEN corrected_answer ELSE answer
final_answer(status, answer, corrected_answer) ==
    IF status = 1 /\ strip(corrected_answer) # <<>>
    THEN corrected_answer
    ELSE answer

\* Line 60: f"Q: {question.strip()}\nA: {final_answer.strip()}"
qa_content(question, final) ==
    <<"Q", ":", " ">> \o strip(question)
        \o <<"\n", "A", ":", " ">> \o strip(final)

\* Lines 63-73: the Document of a retained row.
Document(index, question, answer, status, corrected_answer) ==
    LET final == final_answer(status, answer, corrected_answer)
    IN  [ page_content |-> qa_content(question, final),
          metadata |->
            [ source         |-> "xlsx",
              row_index      |-> index,
              question       |-> strip(question),
              answer         |-> strip(final),
              status         |-> status,
              has_correction |-> IF corrected_answer # <<>>
                                 THEN strip(corrected_answer) # <<>>
                                 ELSE FALSE ] ]

\* Lines 80-81: the largest chunk and the text two neighbouring chunks
\* share.
chunk_size    == 500
chunk_overlap == 50

\* Line 82: the separators in order of preference, each one a text; "JU" is
\* the ideographic full stop and "DUN" the enumeration comma, and the last
\* one, the empty text, splits between any two characters.
separators_without_char_boundary ==
    << <<"\n", "\n">>, <<"\n">>, <<"JU">>, <<"!">>, <<"?">>, <<";">>,
       <<",">>, <<"DUN">> >>
separators ==
    << <<"\n", "\n">>, <<"\n">>, <<"JU">>, <<"!">>, <<"?">>, <<";">>,
       <<",">>, <<"DUN">>, <<>> >>

\* The places of text t where separator sep begins.
Candidates(sep, t) ==
    {i \in 1..(Len(t) - Len(sep) + 1) : SubSeq(t, i, i + Len(sep) - 1) = sep}

\* The occurrences of sep that splitting uses: taken from left to right,
\* none overlapping the one before it.
Matches(sep, t) ==
    LET C == Candidates(sep, t)
        RunStart(i) ==
            CHOOSE c \in C : /\ c <= i
                             /\ (c - 1) \notin C
                             /\ \A j \in c..i : j \in C
    IN  IF Len(sep) = 1
        THEN C
        ELSE {i \in C : (i - RunStart(i)) % Len(sep) = 0}

\* Text t split at sep, every separator kept at the start of the piece that
\* follows it: the place where each piece starts, in order, then Len(t) + 1.
\* Piece k of t is t[st[k]] .. t[st[k + 1] - 1]; the empty separator makes
\* one piece of every character.
Starts(sep, t) ==
    IF sep = <<>>
    THEN [i \in 1..(Len(t) + 1) |-> i]
    ELSE LET S == {1} \cup Matches(sep, t) \cup {Len(t) + 1}
         IN  [k \in 1..Cardinality(S) |->
                 CHOOSE p \in S : Cardinality({q \in S : q < p}) = k - 1]

\* Merging pieces into chunks, one piece j at a time.  The pieces gathered
\* so far are acc.first .. j - 1.  When piece j does not fit, the gathered
\* pieces are emitted as a chunk, trimmed, and pieces are dropped from the
\* front while more than chunk_overlap is left or piece j still does not
\* fit; then piece j is gathered.
MergeStep(t, st, acc, j) ==
    LET len   == st[j + 1] - st[j]
        total == st[j] - st[acc.first]
        doc   == strip(SubSeq(t, st[acc.first], st[j] - 1))
        Popped(f) ==
            LET rest == st[j] - st[f]
            IN  rest > chunk_overlap \/ (rest + len > chunk_size /\ rest > 0)
    IN  IF total + len > chunk_size /\ acc.first < j
        THEN [ docs  |-> IF doc = <<>> THEN acc.docs
                                       ELSE Append(acc.docs, doc),
               first |-> acc.first
                           + Cardinality({f \in acc.first..j : Popped(f)}) ]
        ELSE acc

\* MergeStep for the pieces a .. b in order.
RECURSIVE MergeFold(_, _, _, _, _)
MergeFold(t, st, acc, a, b) ==
    IF a > b THEN acc
    ELSE IF a = b THEN MergeStep(t, st, acc, a)
    ELSE LET m    == (a + b) \div 2
             left == MergeFold(t, st, acc, a, m)
         IN  IF left.first <= m + 1
             THEN MergeFold(t, st, left, m + 1, b)
             ELSE left

\* The chunks made of the pieces lo .. hi of t, each of them shorter than
\* chunk_size: what is gathered at the end is the last chunk.
merge_splits(t, st, lo, hi) ==
    IF lo > hi
    THEN <<>>
    ELSE LET acc == MergeFold(t, st, [docs |-> <<>>, first |-> lo], lo, hi)
             doc == strip(SubSeq(t, st[acc.first], st[hi + 1] - 1))
         IN  IF doc = <<>> THEN acc.docs ELSE Append(acc.docs, doc)

\* The recursive splitter: the text is split at the first separator of the
\* list that occurs in it; the pieces shorter than chunk_size are merged
\* into chunks, and every other piece is split in turn with the separators
\* that follow, or kept whole when none is left.
RECURSIVE split_text(_, _)
RECURSIVE SplitFrom(_, _, _, _)
SplitFrom(t, st, new_separators, k) ==
    LET n    == Len(st) - 1
        Long == {b \in k..n : st[b + 1] - st[b] >= chunk_size}
    IN  IF Long = {}
        THEN merge_splits(t, st, k, n)
        ELSE LET b == CHOOSE x \in Long : \A y \in Long : x <= y
                 s == SubSeq(t, st[b], st[b + 1] - 1)
             IN  merge_splits(t, st, k, b - 1)
                   \o (IF new_separators = <<>>
                       THEN <<s>>
                       ELSE split_text(s, new_separators))
                   \o SplitFrom(t, st, new_separators, b + 1)

split_text(t, seps) ==
    LET Found == {i \in 1..Len(seps) :
                     seps[i] = <<>> \/ Candidates(seps[i], t) # {}}
        i     == IF Found = {}
                 THEN Len(seps)
                 ELSE CHOOSE x \in Found : \A y \in Found : x <= y
        new_separators ==
            IF Found = {} \/ seps[i] = <<>>
            THEN <<>>
            ELSE SubSeq(seps, i + 1, Len(seps))
    IN  SplitFrom(t, Starts(seps[i], t), new_separators, 1)

\* Lines 79-86: split_documents; every chunk of a document is a document
\* with a copy of its metadata.
RECURSIVE split_documents(_)
split_documents(ds) ==
    IF ds = <<>>
    THEN <<>>
    ELSE LET chunks == split_text(Head(ds).page_content, separators)
         IN  [ c \in 1..Len(chunks) |->
                 [ page_content |-> chunks[c],
                   metadata     |-> Head(ds).metadata ] ]
               \o split_documents(Tail(ds))

\* Line 14: the test that decides whether this run builds.
StoreNeverFound == FALSE
StoreFound == dirExists

EndRun(what) ==
    /\ bpc' = "start"
    /\ report' = what
    /\ columns' = <<>>
    /\ documents' = <<>>
    /\ docRows' = <<>>
    /\ docs' = <<>>
    /\ nrows' = 0
    /\ rowIdx' = 0

Performed(step) ==
    stepRuns' = [stepRuns EXCEPT ![step] = @ \cup {runs}]

\* Lines 14-21 and 121-122: a run starts; it ends here when the store exists
\* or the spreadsheet is missing.
CheckStore ==
    /\ script = "builder" /\ bpc = "start" /\ runs < MaxRuns
    /\ runs' = runs + 1
    /\ IF StoreFound
       THEN EndRun("already_exists")
       ELSE IF ~fileExists
       THEN EndRun("FileNotFoundError")
       ELSE /\ bpc' = "read"
            /\ UNCHANGED <<columns, nrows, rowIdx, documents, docRows, docs,
                           report>>
    /\ UNCHANGED <<script, dirExists, fileExists, store, stepRuns,
                   extractVars, batchVars>>

\* Lines 24-41, pd.read_excel raises: the run aborts.
ReadExcelFails ==
    /\ script = "builder" /\ bpc = "read"
    /\ EndRun("ReadError")
    /\ UNCHANGED <<script, runs, dirExists, fileExists, store, stepRuns,
                   extractVars, batchVars>>

\* Lines 24-41, pd.read_excel returns a sheet: the columns are resolved by
\* position, and the run aborts when there are fewer than three.
ReadExcel ==
    /\ script = "builder" /\ bpc = "read"
    /\ \E h \in BuilderHeaders, n \in 0..MaxRows :
          /\ IF ColumnsResolve(h)
             THEN /\ Performed("read")
                  /\ columns' = h
                  /\ nrows' = n
                  /\ rowIdx' = 0
                  /\ documents' = <<>>
                  /\ docRows' = <<>>
                  /\ bpc' = "rows"
                  /\ UNCHANGED <<docs, report>>
             ELSE /\ EndRun(IndexError(h))
                  /\ UNCHANGED stepRuns
    /\ UNCHANGED <<script, runs, dirExists, fileExists, store, extractVars,
                   batchVars>>

\* Lines 46-74: one iteration of the loop over df.iterrows().
BuilderRow ==
    /\ script = "builder" /\ bpc = "rows" /\ rowIdx < nrows
    /\ \E row \in RowsOf(columns) :
          LET question  == CellText(columns, row, question_col(columns))
              answer    == CellText(columns, row, answer_col(columns))
              status    == RowStatus(columns, row)
              corrected == RowCorrected(columns, row)
          IN  IF SkipsRow(question, answer)
              THEN UNCHANGED <<documents, docRows>>
              ELSE /\ documents' = Append(documents,
                         Document(rowIdx, question, answer, status, corrected))
                   /\ docRows' = Append(docRows, row)
    /\ rowIdx' = rowIdx + 1
    /\ UNCHANGED <<script, columns, nrows, bpc, runs, dirExists, fileExists,
                   store, docs, report, stepRuns, extractVars, batchVars>>

\* Lines 76-93: the loop is over, the documents are split into chunks.
SplitDocuments ==
    /\ script = "builder" /\ bpc = "rows" /\ rowIdx = nrows
    /\ docs' = split_documents(documents)
    /\ Performed("chunk")
    /\ bpc' = "store"
    /\ UNCHANGED <<script, dfVars, runs, dirExists, fileExists, store,
                   documents, docRows, report, extractVars, batchVars>>

\* Lines 95-119: Chroma.from_documents embeds and persists the chunks.
CreateStore ==
    /\ script = "builder" /\ bpc = "store"
    /\ Performed("store")
    /\ dirExists' = TRUE
    /\ store' = docs
    /\ EndRun("built")
    /\ UNCHANGED <<script, runs, fileExists, extractVars, batchVars>>

\* Lines 95-108, the embedding service or the store raises.  The library
\* creates the persistent directory when it opens its client, before it
\* embeds: a failure leaves the directory absent or present and empty.
CreateStoreFails ==
    /\ script = "builder" /\ bpc = "store"
    /\ \E made \in BOOLEAN :
          /\ dirExists' = made
          /\ store' = <<>>
    /\ EndRun("StoreError")
    /\ UNCHANGED <<script, runs, fileExists, stepRuns, extractVars,
                   batchVars>>

\* Between two runs the user adds or removes the source spreadsheet.
SourceFileChanges ==
    /\ script = "builder" /\ bpc = "start" /\ runs < MaxRuns
    /\ fileExists' = ~fileExists
    /\ UNCHANGED <<script, dfVars, bpc, runs, dirExists, store, documents,
                   docRows, docs, report, stepRuns, extractVars, batchVars>>

BuilderNext ==
    \/ CheckStore
    \/ ReadExcelFails
    \/ ReadExcel
    \/ BuilderRow
    \/ SplitDocuments
    \/ CreateStore
    \/ CreateStoreFails
    \/ SourceFileChanges

----------------------------------------------------------------------------
(* run/process_data/excel2QAjson.py: QAExcelProcessor.extract_qa_pairs.    *)

\* The sheets the extractor may be given.
ExtractHeaders ==
    { <<"question", "answer", "status", "corrected_answer">>,
      <<"answer", "question", "status", "corrected_answer">>,
      <<"q", "a", "status", "corrected_answer">>,
      <<"question", "answer", "status", "fix">>,
      <<"question", "answer">>,
      <<"q">> }

\* Lines 60-62: the column names the extractor recognises.
possible_question_cols         == {"question"}
possible_answer_cols           == {"answer"}
possible_corrected_answer_cols == {"corrected_answer"}

\* Lines 64-70: the last column of h whose name is in possible, or None.
RECURSIVE FindCol(_, _)
FindCol(h, possible) ==
    IF h = <<>> THEN None
    ELSE IF h[Len(h)] \in possible THEN h[Len(h)]
    ELSE FindCol(SubSeq(h, 1, Len(h) - 1), possible)

\* Lines 73-80: without both standard names the first two columns are used,
\* and a sheet with fewer than two columns yields no pair at all.
NamedCols(h) ==
    /\ FindCol(h, possible_question_cols) # None
    /\ FindCol(h, possible_answer_cols) # None

ExtractResolves(h) == NamedCols(h) \/ Len(h) >= 2

qa_question_col(h) ==
    IF NamedCols(h) THEN FindCol(h, possible_question_cols) ELSE h[1]
qa_answer_col(h) ==
    IF NamedCols(h) THEN FindCol(h, possible_answer_cols) ELSE h[2]
corrected_answer_col(h) == FindCol(h, possible_corrected_answer_cols)

\* Lines 95-99: the stripped corrected answer of a row, "" when absent.
PairCorrected(h, row) ==
    IF corrected_answer_col(h) # None
          /\ notna(Cell(h, row, corrected_answer_col(h)))
    THEN strip(Cell(h, row, corrected_answer_col(h)).v)
    ELSE <<>>

\* Lines 92-102: the answer of a row, replaced by a non-empty correction.
PairAnswer(h, row) ==
    IF PairCorrected(h, row) # <<>>
    THEN PairCorrected(h, row)
    ELSE CellText(h, row, qa_answer_col(h))

\* Line 106: the rows the loop skips.
SkipsPair(question, answer) == strip(question) = <<>> /\ strip(answer) = <<>>

\* Lines 109-120: the qa_pair of a retained row.
QAPair(index, question, answer, used_corrected) ==
    [ id       |-> index + 1,
      question |-> strip(question),
      answer   |-> strip(answer),
      metadata |->
        [ source                |-> "xlsx",
          row_index             |-> index + 1,
          question_length       |-> Len(strip(question)),
          answer_length         |-> Len(strip(answer)),
          used_corrected_answer |-> used_corrected ] ]

\* Lines 46-48: extract_qa_pairs before load_excel_data returns [].
ExtractNoData ==
    /\ script = "extract" /\ epc = "columns"
    /\ epc' = "done"
    /\ UNCHANGED <<script, dfVars, builderVars, qa_pairs, pairRows,
                   corrected_count, batchVars>>

\* Lines 52-87: the columns are resolved.
ExtractColumns ==
    /\ script = "extract" /\ epc = "columns"
    /\ \E h \in ExtractHeaders, n \in 0..MaxRows :
          /\ columns' = h
          /\ nrows' = n
          /\ epc' = IF ExtractResolves(h) THEN "rows" ELSE "done"
    /\ UNCHANGED <<script, rowIdx, builderVars, qa_pairs, pairRows,
                   corrected_count, batchVars>>

\* Lines 90-121: one iteration of the loop over self.data.iterrows().
ExtractRow ==
    /\ script = "extract" /\ epc = "rows" /\ rowIdx < nrows
    /\ \E row \in RowsOf(columns) :
          LET question == CellText(columns, row, qa_question_col(columns))
              used     == PairCorrected(columns, row) # <<>>
              answer   == PairAnswer(columns, row)
          IN  /\ corrected_count' = corrected_count + (IF used THEN 1 ELSE 0)
              /\ IF SkipsPair(question, answer)
                 THEN UNCHANGED <<qa_pairs, pairRows>>
                 ELSE /\ qa_pairs' = Append(qa_pairs,
                            QAPair(rowIdx, question, answer, used))
                      /\ pairRows' = Append(pairRows, row)
    /\ rowIdx' = rowIdx + 1
    /\ UNCHANGED <<script, columns, nrows, builderVars, epc, batchVars>>

\* Lines 123-127: the loop is over, qa_pairs is returned.
ExtractReturn ==
    /\ script = "extract" /\ epc = "rows" /\ rowIdx = nrows
    /\ epc' = "done"
    /\ UNCHANGED <<script, dfVars, builderVars, qa_pairs, pairRows,
                   corrected_count, batchVars>>

ExtractNext ==
    \/ ExtractNoData
    \/ ExtractColumns
    \/ ExtractRow
    \/ ExtractReturn

----------------------------------------------------------------------------
(* run/basellm.py and run/rag.py: the batch runs.                          *)

\* The i-th pair of qa_data.json: questions and answers are pairwise
\* distinct, so that a record built from the wrong pair is visible.
Pair(i) == [question |-> <<"q", i>>, answer |-> <<"a", i>>]
Pairs(n) == [i \in 1..n |-> Pair(i)]

\* A response is its prefix and what follows it: the model's answer to
\* question of, or the message of the exception raised for item of.
Answer(i)  == [prefix |-> "", kind |-> "llm", of |-> i]
ErrorPrefix == "Error: "
\* rag.py line 164 writes a Chinese prefix, "processing error: ".
RagErrorPrefix == "ChuLiChuCuo: "
ErrorText(prefix, i) == [prefix |-> prefix, kind |-> "exc", of |-> i]

Record(question, response, contexts) ==
    [user_input |-> question, response |-> response,
     retrieved_contexts |-> contexts]

\* A line left in the output file by an earlier run.
StaleLine == Record(<<"q", 0>>, Answer(0), <<"a", 0>>)
StaleInfo == [item |-> 0, failed |-> FALSE, how |-> "stale"]

Info(i, failed, how) == [item |-> i, failed |-> failed, how |-> how]

\* f.write(json.dumps(record) + "\n"), with what the line is written for.
Write(record, info) ==
    /\ out_file' = Append(out_file, record)
    /\ lineInfo' = Append(lineInfo, info)

\* -------- run/basellm.py

\* Line 123: ThreadPoolExecutor(max_workers=32)
max_workers == 32

\* Lines 68-88: get_llm_response; the chain returns, or raises and the
\* exception is caught and returned as text.
get_llm_response(i, gen) ==
    IF gen = "ok" THEN Answer(i) ELSE ErrorText(ErrorPrefix, i)

\* Lines 90-111: process_single_question on the i-th pair.
process_single_question(i, pair, gen) ==
    [ json_record  |-> Record(pair.question, get_llm_response(i, gen),
                              pair.answer),
      question     |-> pair.question,
      llm_response |-> get_llm_response(i, gen) ]

Task(state, result, gen) == [state |-> state, result |-> result, gen |-> gen]

Running == {i \in 1..Len(futures) : futures[i].state = "running"}

\* The tasks whose generation call never returns; each keeps its pool thread.
Hung == {i \in 1..Len(futures) : futures[i].state = "hung"}

\* Lines 116-121: the data is loaded; nothing to do without questions.
BaseLoad ==
    /\ script = "basellm" /\ mpc = "load"
    /\ \E n \in 0..MaxN :
          /\ loaded' = Pairs(n)
          /\ mpc' = IF n = 0 THEN "done" ELSE "submit"
    /\ pos' = 1
    /\ UNCHANGED <<script, dfVars, builderVars, extractVars, qa_pair,
                   futures, completed, out_file, lineInfo, processed_count, results,
                   calls>>

\* Lines 127-129: one iteration of the submitting loop.
Submit ==
    /\ script = "basellm" /\ mpc = "submit" /\ pos <= Len(loaded)
    /\ qa_pair' = loaded[pos]
    /\ futures' = Append(futures, Task("queued", <<>>, "none"))
    /\ pos' = pos + 1
    /\ UNCHANGED <<script, dfVars, builderVars, extractVars, mpc, loaded,
                   completed, out_file, lineInfo, processed_count, results, calls>>

\* Lines 132-135: the output file is opened for writing, which empties it.
OpenOutput ==
    /\ script = "basellm" /\ mpc = "submit" /\ pos > Len(loaded)
    /\ mpc' = "collect"
    /\ pos' = 1
    /\ processed_count' = 0
    /\ out_file' = <<>>
    /\ lineInfo' = <<>>
    /\ UNCHANGED <<script, dfVars, builderVars, extractVars, loaded, qa_pair,
                   futures, completed, results, calls>>

\* A pool thread takes a queued task.
WorkerStart ==
    /\ script = "basellm"
    /\ \E i \in 1..Len(futures) :
          /\ futures[i].state = "queued"
          /\ Cardinality(Running \cup Hung) < max_workers
          /\ futures' = [futures EXCEPT ![i].state = "running"]
    /\ UNCHANGED <<script, dfVars, builderVars, extractVars, mpc, loaded,
                   qa_pair, completed, pos, out_file, lineInfo,
                   processed_count, results, calls>>

\* The task returns its result: the chain answered, or it raised inside
\* get_llm_response.
WorkerReturns ==
    /\ script = "basellm"
    /\ \E i \in Running, gen \in {"ok", "error"} :
          /\ futures' = [futures EXCEPT ![i] =
                 Task("returned",
                      <<process_single_question(i, loaded[i], gen)>>, gen)]
          /\ completed' = Append(completed, i)
    /\ UNCHANGED <<script, dfVars, builderVars, extractVars, mpc, loaded,
                   qa_pair, pos, out_file, lineInfo, processed_count, results, calls>>

\* The task raises outside get_llm_response: the future holds the exception.
WorkerRaises ==
    /\ script = "basellm"
    /\ \E i \in Running :
          /\ futures' = [futures EXCEPT ![i] = Task("raised", <<>>, "raised")]
          /\ completed' = Append(completed, i)
    /\ UNCHANGED <<script, dfVars, builderVars, extractVars, mpc, loaded,
                   qa_pair, pos, out_file, lineInfo, processed_count, results, calls>>

\* Lines 153-162: the except branch of the collecting loop, entered with
\* the lines written so far; the record is built from the variable qa_pair,
\* and the loop goes on.
ReraisedInCollect(lines, infos, e) ==
    /\ mpc' = "aborted"
    /\ out_file' = lines
    /\ lineInfo' = infos
    /\ pos' = pos
CaughtInCollect(lines, infos, e) ==
    /\ out_file' = Append(lines,
           Record(qa_pair.question, ErrorText(ErrorPrefix, e), qa_pair.answer))
    /\ lineInfo' = Append(infos, Info(e, TRUE, "except"))
    /\ pos' = pos + 1
    /\ mpc' = mpc

\* Lines 137-151: the future of this iteration returned; its record is
\* written and flushed.  The futures are taken in the order of the futures
\* list, each waited for in turn.
CollectResult ==
    /\ script = "basellm" /\ mpc = "collect" /\ pos <= Len(futures)
    /\ futures[pos].state = "returned"
    /\ Write(futures[pos].result[1].json_record,
             Info(pos, futures[pos].gen = "error", "try"))
    /\ processed_count' = processed_count + 1
    /\ pos' = pos + 1
    /\ UNCHANGED <<script, dfVars, builderVars, extractVars, mpc, loaded,
                   qa_pair, futures, completed, results, calls>>

\* Lines 137-162: the future returned and its record is written and
\* counted, then a print of lines 149-151 raises: the except branch writes
\* as well.
CollectRaisesAfterWrite ==
    /\ script = "basellm" /\ mpc = "collect" /\ pos <= Len(futures)
    /\ futures[pos].state = "returned"
    /\ processed_count' = processed_count + 1
    /\ CaughtInCollect(
          Append(out_file, futures[pos].result[1].json_record),
          Append(lineInfo, Info(pos, futures[pos].gen = "error", "try")),
          pos)
    /\ UNCHANGED <<script, dfVars, builderVars, extractVars, loaded, qa_pair,
                   futures, completed, results, calls>>

\* Lines 138, 153-162: future.result() re-raises the task's exception.
CollectException ==
    /\ script = "basellm" /\ mpc = "collect" /\ pos <= Len(futures)
    /\ futures[pos].state = "raised"
    /\ CaughtInCollect(out_file, lineInfo, pos)
    /\ UNCHANGED <<script, dfVars, builderVars, extractVars, loaded, qa_pair,
                   futures, completed, processed_count, results, calls>>

\* Lines 164-166: every future was collected; the file and the pool close.
BaseFinish ==
    /\ script = "basellm" /\ mpc = "collect" /\ pos > Len(futures)
    /\ mpc' = "done"
    /\ UNCHANGED <<script, dfVars, builderVars, extractVars, loaded, qa_pair,
                   futures, completed, pos, out_file, lineInfo,
                   processed_count, results, calls>>

BaseNext ==
    \/ BaseLoad
    \/ Submit
    \/ OpenOutput
    \/ WorkerStart
    \/ WorkerReturns
    \/ WorkerRaises
    \/ CollectResult
    \/ CollectRaisesAfterWrite
    \/ CollectException
    \/ BaseFinish

\* -------- run/rag.py

\* Lines 134-136: rag_chain.invoke with an empty chat_history answers the
\* question.
rag_answer(i) == Answer(i)

\* Line 136: the chat_history that process_qa_pairs passes to the chain.
chat_history_one_turn == <<"turn">>
chat_history == <<>>

\* Lines 74-78: the history-aware retriever.  With an empty history the
\* question itself is the standalone query and the model is not called; with
\* a history the model is called once to reformulate the question.
Reformulated(question) == <<"s", question[2]>>
history_aware_retriever(question, history) ==
    IF history = <<>>
    THEN [reformulations |-> 0, query |-> question]
    ELSE [reformulations |-> 1, query |-> Reformulated(question)]

\* Lines 102-107, 136: one rag_chain.invoke for item i: the standalone
\* query, one retrieval with it, then one generation of the answer unless
\* the retrieval raised.
ChainOutcomes == {"ok", "retrieval_raises", "generation_raises"}
rag_chain_invoke(i, question, history, outcome) ==
    [ item           |-> i,
      query          |-> history_aware_retriever(question, history).query,
      reformulations |->
          history_aware_retriever(question, history).reformulations,
      retrievals     |-> 1,
      generations    |-> IF outcome = "retrieval_raises" THEN 0 ELSE 1 ]

Invoke(outcome) ==
    calls' = Append(calls,
        rag_chain_invoke(pos, loaded[pos].question, chat_history, outcome))

\* Lines 159-168: the except branch of the loop, entered with the lines
\* written so far; it writes a record for the question and the loop goes on.
ReraisedInLoop(lines, infos, e) ==
    /\ mpc' = "aborted"
    /\ out_file' = lines
    /\ lineInfo' = infos
    /\ pos' = pos
CaughtInLoop(lines, infos, e) ==
    /\ out_file' = Append(lines,
           Record(loaded[pos].question, ErrorText(RagErrorPrefix, e),
                  loaded[pos].answer))
    /\ lineInfo' = Append(infos, Info(e, TRUE, "except"))
    /\ pos' = pos + 1
    /\ mpc' = mpc

\* Lines 118-126: the data is loaded; the output file is left as it is.
RagLoad ==
    /\ script = "rag" /\ mpc = "load"
    /\ \E n \in 0..MaxN : loaded' = Pairs(n)
    /\ mpc' = "loop"
    /\ pos' = 1
    /\ results' = <<>>
    /\ calls' = <<>>
    /\ UNCHANGED <<script, dfVars, builderVars, extractVars, qa_pair,
                   futures, completed, out_file, lineInfo, processed_count>>

\* Lines 128-157: the chain answers; the record is kept and appended.
RagItem ==
    /\ script = "rag" /\ mpc = "loop" /\ pos <= Len(loaded)
    /\ qa_pair' = loaded[pos]
    /\ LET record == Record(loaded[pos].question, rag_answer(pos),
                            loaded[pos].answer)
       IN  /\ results' = Append(results, record)
           /\ Write(record, Info(pos, FALSE, "try"))
    /\ Invoke("ok")
    /\ pos' = pos + 1
    /\ UNCHANGED <<script, dfVars, builderVars, extractVars, mpc, loaded,
                   futures, completed, processed_count>>

\* Lines 128-136, 159-168: the chain raises.
RagItemFails ==
    /\ script = "rag" /\ mpc = "loop" /\ pos <= Len(loaded)
    /\ qa_pair' = loaded[pos]
    /\ \E outcome \in ChainOutcomes \ {"ok"} : Invoke(outcome)
    /\ CaughtInLoop(out_file, lineInfo, pos)
    /\ UNCHANGED <<script, dfVars, builderVars, extractVars, loaded,
                   futures, completed, processed_count, results>>

\* Lines 128-168: the record is kept and appended, then the print of line
\* 157 raises: the except branch appends as well.
RagItemRaisesAfterWrite ==
    /\ script = "rag" /\ mpc = "loop" /\ pos <= Len(loaded)
    /\ qa_pair' = loaded[pos]
    /\ LET record == Record(loaded[pos].question, rag_answer(pos),
                            loaded[pos].answer)
       IN  /\ results' = Append(results, record)
           /\ CaughtInLoop(Append(out_file, record),
                           Append(lineInfo, Info(pos, FALSE, "try")), pos)
    /\ Invoke("ok")
    /\ UNCHANGED <<script, dfVars, builderVars, extractVars, loaded,
                   futures, completed, processed_count>>

\* Lines 170-171: the loop is over.
RagFinish ==
    /\ script = "rag" /\ mpc = "loop" /\ pos > Len(loaded)
    /\ mpc' = "done"
    /\ UNCHANGED <<script, dfVars, builderVars, extractVars, loaded, qa_pair,
                   futures, completed, pos, out_file, lineInfo,
                   processed_count, results, calls>>

RagNext ==
    \/ RagLoad
    \/ RagItem
    \/ RagItemFails
    \/ RagItemRaisesAfterWrite
    \/ RagFinish

----------------------------------------------------------------------------
(* The specifications.                                                     *)

Init ==
    /\ script \in {"builder", "extract", "basellm", "rag"}
    /\ columns = <<>> /\ nrows = 0 /\ rowIdx = 0
    /\ bpc = "start" /\ runs = 0
    /\ dirExists = FALSE
    /\ fileExists \in (IF script = "builder" THEN BOOLEAN ELSE {TRUE})
    /\ store = <<>>
    /\ documents = <<>> /\ docRows = <<>> /\ docs = <<>>
    /\ report = "none"
    /\ stepRuns = [read |-> {}, chunk |-> {}, store |-> {}]
    /\ epc = "columns"
    /\ qa_pairs = <<>> /\ pairRows = <<>> /\ corrected_count = 0
    /\ mpc = "load"
    /\ loaded = <<>>
    /\ qa_pair = Pair(0)
    /\ futures = <<>> /\ completed = <<>>
    /\ pos = 1
    /\ \E stale \in (IF script \in {"basellm", "rag"} THEN BOOLEAN
                                                       ELSE {FALSE}) :
          /\ out_file = IF stale THEN <<StaleLine>> ELSE <<>>
          /\ lineInfo = IF stale THEN <<StaleInfo>> ELSE <<>>
    /\ processed_count = 0
    /\ results = <<>>
    /\ calls = <<>>

BatchNext == BaseNext \/ RagNext

\* One specification per script; the two batch runs share one.
BuilderInit == Init /\ script = "builder"
ExtractInit == Init /\ script = "extract"
BatchInit   == Init /\ script \in {"basellm", "rag"}

BuilderSpec == BuilderInit /\ [][BuilderNext]_vars

\* The builder at the end of its loop over a sheet of one row whose answer
\* is long: two runs of characters of about chunk_size each, with or without
\* a separator between them.
MaxExtra == 1
Run(c, n) == [i \in 1..n |-> c]
SegmentLengths ==
    {1, chunk_overlap} \cup ((chunk_size - MaxExtra)..(chunk_size + MaxExtra))
Joints == {<<>>, <<" ">>, <<"\n">>, <<"\n", "\n">>, <<",">>, <<"JU">>}
LongAnswers ==
    {Run("x", a) \o j \o Run("y", b) :
        a \in SegmentLengths, b \in SegmentLengths, j \in Joints}
LongHeader == <<"question", "answer", "status", "corrected_answer">>
LongRow(answer) == <<Text(<<"q">>), Text(answer), Number(0), NaText>>

SplitterInit ==
    /\ script = "builder"
    /\ columns = LongHeader /\ nrows = 1 /\ rowIdx = 1
    /\ bpc = "rows" /\ runs = 1
    /\ dirExists = FALSE /\ fileExists = TRUE
    /\ store = <<>>
    /\ \E answer \in LongAnswers :
          /\ documents = <<Document(0, <<"q">>, answer, 0, <<>>)>>
          /\ docRows = <<LongRow(answer)>>
    /\ docs = <<>>
    /\ report = "none"
    /\ stepRuns = [read |-> {1}, chunk |-> {}, store |-> {}]
    /\ epc = "columns"
    /\ qa_pairs = <<>> /\ pairRows = <<>> /\ corrected_count = 0
    /\ mpc = "load"
    /\ loaded = <<>>
    /\ qa_pair = Pair(0)
    /\ futures = <<>> /\ completed = <<>>
    /\ pos = 1
    /\ out_file = <<>> /\ lineInfo = <<>>
    /\ processed_count = 0
    /\ results = <<>>
    /\ calls = <<>>

SplitterNext == SplitDocuments \/ CreateStore
SplitterSpec == SplitterInit /\ [][SplitterNext]_vars
ExtractSpec == ExtractInit /\ [][ExtractNext]_vars
BatchSpec   == BatchInit /\ [][BatchNext]_vars

\* The threads of a batch run are scheduled and every call returns or
\* raises: a batch step that stays possible is eventually taken.
BatchFairSpec == BatchSpec /\ WF_vars(BatchNext)

\* The main thread of a batch run is stopped from outside, at any point of
\* the run: it takes no further step and the file keeps what was flushed (basellm
\* line 146) or closed (rag lines 154-155, 167-168) so far.
BaseInterrupted ==
    /\ script = "basellm" /\ mpc \in {"load", "submit", "collect"}
    /\ mpc' = "interrupted"
    /\ UNCHANGED <<script, dfVars, builderVars, extractVars, loaded, qa_pair,
                   futures, completed, pos, out_file, lineInfo,
                   processed_count, results, calls>>

RagInterrupted ==
    /\ script = "rag" /\ mpc \in {"load", "loop"}
    /\ mpc' = "interrupted"
    /\ UNCHANGED <<script, dfVars, builderVars, extractVars, loaded, qa_pair,
                   futures, completed, pos, out_file, lineInfo,
                   processed_count, results, calls>>

BatchInterruptNext == BatchNext \/ BaseInterrupted \/ RagInterrupted
BatchInterruptSpec == BatchInit /\ [][BatchInterruptNext]_vars

\* basellm line 80: the chain.invoke of a running task never returns; the
\* task neither returns nor raises from then on.
WorkerHangs ==
    /\ script = "basellm"
    /\ \E i \in Running : futures' = [futures EXCEPT ![i].state = "hung"]
    /\ UNCHANGED <<script, dfVars, builderVars, extractVars, mpc, loaded,
                   qa_pair, completed, pos, out_file, lineInfo,
                   processed_count, results, calls>>

\* A batch run in which calls may hang; every thread that can take a step
\* eventually takes one.
BatchHangNext == BatchNext \/ WorkerHangs
BatchHangSpec == BatchInit /\ [][BatchHangNext]_vars /\ WF_vars(BatchNext)

----------------------------------------------------------------------------
(* The corpus builder's claims.                                            *)

\* What a row of the sheet holds, read from its cells alone.
SheetQuestion(row) == IF notna(row[1]) THEN row[1].v ELSE <<>>
SheetAnswer(row)   == IF notna(row[2]) THEN row[2].v ELSE <<>>
SheetReviewed(row) == notna(row[3]) /\ row[3].v = 1
SheetCorrection(row) ==
    IF Len(row) >= 4 /\ notna(row[4]) THEN strip(row[4].v) ELSE <<>>

\* The answer the correction-override policy selects for a row.
PolicyAnswer(row) ==
    IF SheetReviewed(row) /\ SheetCorrection(row) # <<>>
    THEN SheetCorrection(row)
    ELSE strip(SheetAnswer(row))

\* C1: every document's answer, in its metadata and after "A: " in its
\* text, is the trimmed corrected answer when its row has status 1 and a
\* corrected answer that is not empty after trimming, and the trimmed
\* original answer of that row in every other case.
C1_AnswerFollowsPolicy ==
    \A k \in 1..Len(documents) :
        /\ documents[k].metadata.answer = PolicyAnswer(docRows[k])
        /\ documents[k].page_content =
              <<"Q", ":", " ">> \o strip(SheetQuestion(docRows[k]))
                  \o <<"\n", "A", ":", " ">> \o PolicyAnswer(docRows[k])

\* Two documents of one sheet: a reviewed row that took its correction and
\* an unreviewed row with a correction that kept its original answer.
C1_Witness ==
    \E j, k \in 1..Len(documents) :
        /\ SheetReviewed(docRows[j]) /\ SheetCorrection(docRows[j]) = <<"b">>
        /\ documents[j].metadata.answer = <<"b">>
        /\ ~SheetReviewed(docRows[k]) /\ SheetCorrection(docRows[k]) = <<"b">>
        /\ documents[k].metadata.answer = <<"a">>

\* C3: every document has a trimmed, non-empty question and a trimmed,
\* non-empty answer, comes from a row whose question and answer cells are
\* not empty after trimming, and there are never more documents than rows
\* read.
C3_DocumentsNonEmpty ==
    /\ Len(documents) <= rowIdx /\ rowIdx <= nrows
    /\ \A k \in 1..Len(documents) :
          /\ documents[k].metadata.question # <<>>
          /\ documents[k].metadata.answer # <<>>
          /\ strip(documents[k].metadata.question)
                = documents[k].metadata.question
          /\ strip(documents[k].metadata.answer) = documents[k].metadata.answer
          /\ strip(SheetQuestion(docRows[k])) # <<>>
          /\ strip(SheetAnswer(docRows[k])) # <<>>

\* Two rows were read, one was dropped and one became a document.
C3_Witness ==
    /\ bpc = "store" /\ nrows = 2
    /\ Len(documents) = 1 /\ Len(docs) = 1

\* C5 as stated: each of the read, chunk and store steps is performed (run
\* to its end) by at most one run of the builder against the directory.
C5_StepsByAtMostOneRun ==
    /\ Cardinality(stepRuns.read) <= 1
    /\ Cardinality(stepRuns.chunk) <= 1
    /\ Cardinality(stepRuns.store) <= 1

\* C5, amended: at most one run completes the store step, and once the
\* persistent directory exists every step of a run leaves the directory,
\* the persisted chunks and the steps performed as they are, and a run that
\* starts ends at once reporting that the store already exists.
C5_BuildsOnceThenSkips ==
    /\ [](Cardinality(stepRuns.store) <= 1)
    /\ [][dirExists =>
             /\ dirExists' /\ store' = store /\ stepRuns' = stepRuns
             /\ (runs' # runs => bpc' = "start" /\ report' = "already_exists")
         ]_vars

\* A run aborted after reading, the next one built the store, the sheet
\* was removed, and the third run reported the store as existing.
C5_Witness ==
    /\ runs = 3 /\ bpc = "start"
    /\ Cardinality(stepRuns.read) = 2 /\ Cardinality(stepRuns.store) = 1
    /\ dirExists /\ ~fileExists /\ store # <<>>
    /\ report = "already_exists"

----------------------------------------------------------------------------
(* The extractor's claims.                                                 *)

\* What a row of the sheet holds, by the role of its columns' names.
HasColumn(h, names) == \E p \in 1..Len(h) : h[p] \in names
ColumnCell(h, row, names) == row[CHOOSE p \in 1..Len(h) : h[p] \in names]
RowReviewed(h, row) ==
    /\ HasColumn(h, StatusNames)
    /\ notna(ColumnCell(h, row, StatusNames))
    /\ ColumnCell(h, row, StatusNames).v = 1
RowCorrection(h, row) ==
    IF HasColumn(h, CorrectedNames) /\ notna(ColumnCell(h, row, CorrectedNames))
    THEN strip(ColumnCell(h, row, CorrectedNames).v)
    ELSE <<>>
RowAnswer(h, row) ==
    IF notna(ColumnCell(h, row, AnswerNames))
    THEN strip(ColumnCell(h, row, AnswerNames).v)
    ELSE <<>>

\* C2: the answer of every qa_pair whose row is not reviewed (status is not
\* 1), or has no corrected answer left after trimming, is the trimmed
\* original answer of that row.
C2_UnreviewedKeepsOriginal ==
    \A k \in 1..Len(qa_pairs) :
        (~RowReviewed(columns, pairRows[k])
            \/ RowCorrection(columns, pairRows[k]) = <<>>)
        => qa_pairs[k].answer = RowAnswer(columns, pairRows[k])

\* C4: every qa_pair has a non-empty question and a non-empty answer.
C4_PairsNonEmpty ==
    \A k \in 1..Len(qa_pairs) :
        qa_pairs[k].question # <<>> /\ qa_pairs[k].answer # <<>>

----------------------------------------------------------------------------
(* The batch runs' claims.                                                 *)

\* The lines this run wrote, by their position in the file.
Written == {k \in 1..Len(out_file) : lineInfo[k].how # "stale"}
LinesOf(i) == {k \in Written : lineInfo[k].item = i}

\* C6: when a run of process_all_questions over N >= 1 questions is over,
\* the output file holds exactly N records, exactly one for each question.
C6_ExactlyOneRecordEach ==
    (script = "basellm" /\ mpc = "done" /\ Len(loaded) >= 1)
    => /\ Len(out_file) = Len(loaded)
       /\ \A i \in 1..Len(loaded) : Cardinality(LinesOf(i)) = 1

\* C7: every record written by a batch run carries the question of one
\* submitted pair, the answer or the error of the task run for that same
\* pair, and that same pair's ground-truth answer.
C7_RecordsConsistent ==
    \A k \in Written :
        \E i \in 1..Len(loaded) :
            /\ out_file[k].user_input = loaded[i].question
            /\ out_file[k].response.of = i
            /\ out_file[k].retrieved_contexts = loaded[i].answer

\* The place of task i in the order of completion.
CompletedAt(i) == CHOOSE p \in 1..Len(completed) : completed[p] = i

\* C8: in process_all_questions the records are in the file in the order in
\* which their tasks completed.
C8_WrittenInCompletionOrder ==
    script = "basellm" =>
        \A j, k \in Written :
            CompletedAt(lineInfo[j].item) < CompletedAt(lineInfo[k].item)
            => j < k

\* C9: a record of a batch run is that of a failed item exactly when its
\* response starts with "Error: ".
C9_ErrorPrefixMarksFailure ==
    \A k \in Written :
        lineInfo[k].failed <=> out_file[k].response.prefix = "Error: "

\* An item failed: its generation call or its task raised, or an exception
\* was caught for it in the loop.
SomeItemFailed ==
    \/ \E k \in Written : lineInfo[k].failed
    \/ \E i \in 1..Len(futures) : futures[i].gen \in {"error", "raised"}

C11_OneLinePerQuestion ==
    (script = "rag" /\ mpc = "done" /\ Len(loaded) >= 1)
    => /\ Len(out_file) = Len(loaded)
       /\ \A i \in 1..Len(loaded) : Cardinality(LinesOf(i)) = 1

\* C12: every rag_chain.invoke of process_qa_pairs makes no reformulation
\* call and retrieves with the question itself as the standalone query; each
\* processed question causes exactly one invoke, with exactly one retrieval
\* and at most one generation call.
C12_NoReformulationOnEmptyHistory ==
    script = "rag" =>
        /\ Len(calls) = (IF mpc = "load" THEN 0 ELSE pos - 1)
        /\ \A k \in 1..Len(calls) :
              /\ calls[k].item = k
              /\ calls[k].reformulations = 0
              /\ calls[k].query = loaded[k].question
              /\ calls[k].retrievals = 1
              /\ calls[k].generations <= 1

\* Two questions were processed: one was answered, for the other the
\* retrieval raised before any generation.
C12_Witness ==
    /\ script = "rag" /\ mpc = "done" /\ Len(calls) = 2
    /\ \E j, k \in 1..2 :
          calls[j].generations = 1 /\ calls[k].generations = 0

\* C13: when a batch run is interrupted after it wrote to the log, the log
\* holds the record of every question processed so far, and each of its
\* lines is the record of a distinct question of this run.
C13_InterruptedLogIsWholeRecords ==
    (mpc = "interrupted" /\ Written # {}) =>
        /\ \A i \in 1..(pos - 1) : LinesOf(i) # {}
        /\ \A k \in 1..Len(out_file) :
              /\ lineInfo[k].how # "stale"
              /\ lineInfo[k].item \in 1..Len(loaded)
        /\ \A j, k \in 1..Len(out_file) :
              j # k => lineInfo[j].item # lineInfo[k].item

\* C18: in process_all_questions a call that hangs holds back only its own
\* question: every question whose task completes eventually has its record
\* in the file, and when no call hangs the run ends with a record for each
\* of the N questions.
C18_HungCallBlocksOnlyItsWorker ==
    /\ \A i \in 1..MaxN :
          (/\ script = "basellm"
           /\ i <= Len(futures)
           /\ futures[i].state \in {"returned", "raised"})
          ~> (LinesOf(i) # {})
    /\ ([](Hung = {}))
          => <>(mpc = "done" /\ \A i \in 1..Len(loaded) : LinesOf(i) # {})

\* C17: over any sequence of builder runs, a run reports that the store
\* already exists only if an earlier run completed the build, and a run that
\* aborted leaves the persistent directory absent.
Aborted == report \notin {"none", "built", "already_exists"}
C17_ExistsOnlyAfterCompletedBuild ==
    script = "builder" =>
        /\ report = "already_exists" => stepRuns.store # {}
        /\ (bpc = "start" /\ Aborted) => ~dirExists

\* C14: the corpus builder accepts every sheet with at least two columns: no
\* run over such a sheet ends on a failure to resolve the columns.
C14_TwoColumnsSuffice ==
    script = "builder" =>
        \A h \in BuilderHeaders : Len(h) >= 2 => report # IndexError(h)

\* C16: every row whose trimmed question is not empty and whose answer
\* selected by the correction-override policy is not empty becomes a
\* document, also a reviewed row with a correction whose original answer
\* cell is empty: whenever the loop is about to read a row, no such row of
\* the sheet would be skipped.
C16_EligibleRowsRetained ==
    (script = "builder" /\ bpc = "rows" /\ rowIdx < nrows) =>
        \A row \in RowsOf(columns) :
            (/\ strip(SheetQuestion(row)) # <<>>
             /\ PolicyAnswer(row) # <<>>)
            => ~SkipsRow(CellText(columns, row, question_col(columns)),
                         CellText(columns, row, answer_col(columns)))

\* A text is a part of another one.
IsPartOf(c, t) ==
    \E i \in 1..(Len(t) - Len(c) + 1) : SubSeq(t, i, i + Len(c) - 1) = c

\* C15: every chunk is no longer than chunk_size, and it is a part of a
\* document whose full metadata it carries.
C15_ChunksBoundedWithMetadata ==
    \A c \in 1..Len(docs) :
        /\ Len(docs[c].page_content) <= chunk_size
        /\ \E d \in 1..Len(documents) :
              /\ docs[c].metadata = documents[d].metadata
              /\ IsPartOf(docs[c].page_content, documents[d].page_content)

\* A document longer than two chunks was split into at least three, one of
\* them as long as a chunk can be.
C15_Witness ==
    /\ Len(documents) = 1
    /\ Len(documents[1].page_content) > 2 * chunk_size
    /\ Len(docs) >= 3
    /\ \E c \in 1..Len(docs) : Len(docs[c].page_content) = chunk_size

====
